---------------------------- MODULE Spec2Model ----------------------------
(***************************************************************************)
(* The authentication-aware request core of the MediaWiki MCP server       *)
(* (src/common/utils.ts) over the wiki registry of src/common/config.ts.   *)
(*                                                                         *)
(* One call of the typed facade is in flight at a time; every `await` of   *)
(* the code is a position of pc, and between two positions the other tasks *)
(* of the process may run: they are represented by the action setCurrent,  *)
(* which changes the process-wide active wiki.                             *)
(***************************************************************************)
EXTENDS Naturals, Sequences, FiniteSets, TLC

(***************************************************************************)
(* JavaScript values.  A string is Str(s), an object is Obj(fields) with   *)
(* fields a sequence of <<name, value>> pairs in insertion order.          *)
(***************************************************************************)
Undefined == [t |-> "undefined"]
Null      == [t |-> "null"]
Str(s)    == [t |-> "string", v |-> s]
Obj(f)    == [t |-> "object", v |-> f]

\* JavaScript truthiness of a value: `restpath ? ..`, `if ( cookies )`, `body ? ..`.
Truthy(x) ==
    CASE x.t = "undefined" -> FALSE
      [] x.t = "null"      -> FALSE
      [] x.t = "string"    -> x.v # ""
      [] OTHER             -> TRUE

\* The names of the fields of an object value.
Keys(o) == { o.v[i][1] : i \in 1..Len(o.v) }

\* The value of field k of an object value that has it.
Field(o, k) == LET i == CHOOSE j \in 1..Len(o.v) : o.v[j][1] = k IN o.v[i][2]

\* { ...o, k: val }: an own field keeps its place and takes the new value,
\* a new field goes last.
SpreadField(o, k, val) ==
    IF k \in Keys(o)
    THEN Obj([i \in 1..Len(o.v) |-> IF o.v[i][1] = k THEN <<k, val>> ELSE o.v[i]])
    ELSE Obj(Append(o.v, <<k, val>>))

\* { ...h, ...g } on header maps (functions from header name to value).
Spread(h, g) ==
    [k \in DOMAIN h \cup DOMAIN g |-> IF k \in DOMAIN g THEN g[k] ELSE h[k]]

(***************************************************************************)
(* Bounds of the model.                                                    *)
(***************************************************************************)
\* How many distinct CSRF token values the session client may hand out.
MaxCsrf == 2

(***************************************************************************)
(* The wiki registry (config.ts).                                          *)
(***************************************************************************)
DefaultWiki == "en.wikipedia.org"
CustomWiki  == "wiki.example.org"
Wikis       == {DefaultWiki, CustomWiki}

\* defaultConfig.wikis[ 'en.wikipedia.org' ]
DefaultWikiConfig ==
    [ sitename    |-> "Wikipedia",
      server      |-> "https://en.wikipedia.org",
      articlepath |-> "/wiki",
      scriptpath  |-> "/w",
      restpath    |-> Undefined,
      token       |-> Null,
      private     |-> FALSE ]

\* The WikiConfig records a config file may give the second wiki.
CustomWikiConfigs ==
    [ sitename    : {"Example"},
      server      : {"https://wiki.example.org"},
      articlepath : {"/wiki"},
      scriptpath  : {"/w"},
      restpath    : {Undefined, Str(""), Str("/api")},
      token       : {Undefined, Null, Str("tok-example")},
      private     : BOOLEAN ]

\* What loadConfigFromFile may return: the default entry and one more wiki.
Registries ==
    { [w \in Wikis |-> IF w = DefaultWiki THEN DefaultWikiConfig ELSE c] :
        c \in CustomWikiConfigs }


(***************************************************************************)
(* The external session client (mwn) and the HTTP transport.               *)
(***************************************************************************)
\* The URLs of the second wiki for which the cookie store may hold cookies;
\* the default wiki has no bot-password login and so no session cookies.
JarUrls ==
    { "https://wiki.example.org",
      "https://wiki.example.org/w/rest.php",
      "https://wiki.example.org/api" }

\* The cookie string the store holds for a URL it has cookies for.
CookieFor(url) == "session@" \o url

\* mwn.cookieJar: absent, or a store that matches cookies for some URLs.
Jars ==
    { [present |-> FALSE, urls |-> {}] } \cup
    { [present |-> TRUE, urls |-> u] : u \in SUBSET JarUrls }

\* cookieJar.getCookieStringSync( url ): "" when no cookie matches.
getCookieStringSync(j, url) == IF url \in j.urls THEN CookieFor(url) ELSE ""

\* The values mwn.getCsrfToken() may resolve to.
CsrfTokens == { "csrf-" \o ToString(i) : i \in 1..MaxCsrf }

\* The REST paths the callers ask for.
Paths == { "/v1/page/Earth", "/v1/search/page" }

USER_AGENT == "mediawiki-mcp-server"

\* The statuses the transport answers with, and the URL a redirect ends at.
Statuses == {200, 404, 500}
RedirectedUrl == "https://redirect.example.org/final"

\* What the rejected promises carry.
CsrfError      == "Failed to get CSRF token"
TransportError == "request failed: network error"
JsonError      == "invalid json response body"

\* The bodies a response may hold: the text of an error answer, the decoded
\* JSON payload, the text of a page, the bytes of an image.
ErrorTexts  == {"Not Found"}
JsonPayload == Obj(<< <<"id", Str("1")>> >>)
HtmlText    == "<p>page</p>"
ImageBytes  == { <<77>>, <<77, 97, 110>> }

(***************************************************************************)
(* Pure functions of utils.ts.                                             *)
(***************************************************************************)
\* url.startsWith( prefix )
StartsWith(s, prefix) ==
    Len(s) >= Len(prefix) /\ SubSeq(s, 1, Len(prefix)) = prefix

\* restApiUrl of getCookiesFromJar.
restApiUrl(cfg) ==
    IF Truthy(cfg.restpath)
    THEN cfg.server \o cfg.restpath.v
    ELSE cfg.server \o cfg.scriptpath \o "/rest.php"

\* getRestApiBase() for the config getCurrent() returns.
getRestApiBase(cfg) ==
    IF Truthy(cfg.restpath)
    THEN cfg.server \o cfg.restpath.v
    ELSE cfg.server \o cfg.scriptpath \o "/rest.php"

\* getCookiesFromJar() after getMwn() has resolved: the URLs it asks the
\* store about, in order, and what it returns.
\* (a variant that asks for the server origin first)
getCookiesFromJar_ServerFirst(j, cfg) ==
    IF ~j.present
    THEN [queries |-> <<>>, cookies |-> Undefined]
    ELSE LET cookies == getCookieStringSync(j, cfg.server)
         IN  IF Truthy(Str(cookies))
             THEN [queries |-> <<cfg.server>>, cookies |-> Str(cookies)]
             ELSE LET fallback == getCookieStringSync(j, restApiUrl(cfg))
                  IN  [queries |-> <<cfg.server, restApiUrl(cfg)>>,
                       cookies |-> IF Truthy(Str(fallback))
                                   THEN Str(fallback) ELSE Undefined]

getCookiesFromJar(j, cfg) ==
    IF ~j.present
    THEN [queries |-> <<>>, cookies |-> Undefined]
    ELSE LET cookies == getCookieStringSync(j, restApiUrl(cfg))
         IN  IF Truthy(Str(cookies))
             THEN [queries |-> <<restApiUrl(cfg)>>, cookies |-> Str(cookies)]
             ELSE LET fallback == getCookieStringSync(j, cfg.server)
                  IN  [queries |-> <<restApiUrl(cfg), cfg.server>>,
                       cookies |-> IF Truthy(Str(fallback))
                                   THEN Str(fallback) ELSE Undefined]

\* withAuth: `!needAuth && !privateWiki`.
\* (a variant that lost the second negation)
Anonymous_PrivateOnly(needAuth_, privateWiki_) == ~needAuth_ /\ privateWiki_

Anonymous(needAuth_, privateWiki_) == ~needAuth_ /\ ~privateWiki_

\* withAuth: `token !== undefined && token !== null`.
HasToken(token_) == token_ # Undefined /\ token_ # Null

\* withAuth: the bearer-token result.
\* (a variant that forgets the header)
BearerConfig_NoHeader(headers, body_, token_) ==
    [headers |-> headers, body |-> body_]

BearerConfig(headers, body_, token_) ==
    [headers |-> Spread(headers, [Authorization |-> "Bearer " \o token_.v]),
     body    |-> body_]

\* withAuth: `{ ...body, token: await getCsrfToken() }`.
\* (a variant in which a token field of the caller's body wins)
WithCsrfToken_CallerWins(body_, csrf_) ==
    IF "token" \in Keys(body_) THEN body_ ELSE SpreadField(body_, "token", csrf_)

WithCsrfToken(body_, csrf_) == SpreadField(body_, "token", csrf_)

\* withAuth: the cookie result.
CookieConfig(headers, body_, cookies_) ==
    [headers |-> Spread(headers, [Cookie |-> cookies_.v]), body |-> body_]

\* The headers each facade function starts from.
JsonAccept == [Accept |-> "application/json"]
JsonAcceptContent ==
    ("Accept" :> "application/json") @@ ("Content-Type" :> "application/json")
NoHeaders == [k \in {} |-> ""]


\* withAuth up to its first await: the result it returns at once ("return"),
\* or the cookie lookup it goes on to ("cookies").
withAuthEnter(headers, body_, needAuth_, cfg) ==
    IF Anonymous(needAuth_, cfg.private)
    THEN [next |-> "return", config |-> [headers |-> headers, body |-> body_]]
    ELSE IF HasToken(cfg.token)
    THEN [next |-> "return", config |-> BearerConfig(headers, body_, cfg.token)]
    ELSE [next |-> "cookies", config |-> [headers |-> headers, body |-> body_]]

\* withAuth once getCookiesFromJar() has resolved: the result it returns
\* ("return"), or the CSRF fetch it awaits before returning config ("csrf").
\* (a variant that attaches the cookies only to a request with a body)
withAuthCookies_BodyOnly(headers, body_, cookies_) ==
    IF cookies_ = Undefined \/ ~Truthy(body_)
    THEN [next |-> "return", config |-> [headers |-> headers, body |-> body_]]
    ELSE [next |-> "csrf", config |-> CookieConfig(headers, body_, cookies_)]

\* (a variant that asks for a CSRF token although no cookies were found)
withAuthCookies_AlwaysCsrf(headers, body_, cookies_) ==
    IF cookies_ = Undefined
    THEN IF Truthy(body_)
         THEN [next |-> "csrf", config |-> [headers |-> headers, body |-> body_]]
         ELSE [next |-> "return", config |-> [headers |-> headers, body |-> body_]]
    ELSE IF Truthy(body_)
    THEN [next |-> "csrf", config |-> CookieConfig(headers, body_, cookies_)]
    ELSE [next |-> "return", config |-> CookieConfig(headers, body_, cookies_)]

withAuthCookies(headers, body_, cookies_) ==
    IF cookies_ = Undefined
    THEN [next |-> "return", config |-> [headers |-> headers, body |-> body_]]
    ELSE IF Truthy(body_)
    THEN [next |-> "csrf", config |-> CookieConfig(headers, body_, cookies_)]
    ELSE [next |-> "return", config |-> CookieConfig(headers, body_, cookies_)]

\* new URLSearchParams( params ).toString(), for names and values that need
\* no percent-encoding.
RECURSIVE JoinParams(_)
JoinParams(f) ==
    IF Len(f) = 0 THEN ""
    ELSE f[1][1] \o "=" \o f[1][2].v \o
         (IF Len(f) = 1 THEN "" ELSE "&" \o JoinParams(Tail(f)))

\* JSON.stringify of an object whose fields are strings free of quotes.
RECURSIVE JoinFields(_)
JoinFields(f) ==
    IF Len(f) = 0 THEN ""
    ELSE "\"" \o f[1][1] \o "\":\"" \o f[1][2].v \o "\"" \o
         (IF Len(f) = 1 THEN "" ELSE "," \o JoinFields(Tail(f)))

JsonStringify(o) == "{" \o JoinFields(o.v) \o "}"

\* fetchCore: the URL it requests.
fetchCoreUrl(baseUrl, params_) ==
    LET url == IF StartsWith(baseUrl, "//") THEN "https:" \o baseUrl ELSE baseUrl
        queryString == IF Truthy(params_) THEN JoinParams(params_.v) ELSE ""
    IN  IF queryString # "" THEN url \o "?" \o queryString ELSE url

\* fetchCore: what it hands to fetch( url, fetchOptions ).
fetchCoreRequest(baseUrl, options) ==
    [ url     |-> fetchCoreUrl(baseUrl, options.params),
      headers |-> Spread([k \in {"User-Agent"} |-> USER_AGENT], options.headers),
      method  |-> IF Truthy(options.method) THEN options.method.v ELSE "GET",
      body    |-> IF Truthy(options.body)
                  THEN Str(JsonStringify(options.body)) ELSE Undefined,
      json    |-> options.body ]

\* response.ok
ResponseOk(status) == status >= 200 /\ status <= 299

\* fetchCore: the message of the error it throws for a response that is not ok.
\* (a variant that leaves the status out)
HttpErrorMessage_NoStatus(status, url, errorBody) ==
    "HTTP error! for URL: " \o url \o ". Response: " \o errorBody

HttpErrorMessage(status, url, errorBody) ==
    "HTTP error! status: " \o ToString(status) \o " for URL: " \o url \o
    ". Response: " \o errorBody

ErrorBodyPlaceholder == "Could not read error response body"

\* buffer.toString( 'base64' )
Base64Alphabet ==
    "ABCDEFGHIJKLMNOPQRSTUVWXYZabcdefghijklmnopqrstuvwxyz0123456789+/"
Base64Char(i) == SubSeq(Base64Alphabet, i + 1, i + 1)

RECURSIVE Base64(_)
Base64(b) ==
    IF Len(b) = 0 THEN ""
    ELSE IF Len(b) = 1
    THEN Base64Char(b[1] \div 4) \o Base64Char((b[1] % 4) * 16) \o "=="
    ELSE IF Len(b) = 2
    THEN Base64Char(b[1] \div 4) \o
         Base64Char((b[1] % 4) * 16 + b[2] \div 16) \o
         Base64Char((b[2] % 16) * 4) \o "="
    ELSE Base64Char(b[1] \div 4) \o
         Base64Char((b[1] % 4) * 16 + b[2] \div 16) \o
         Base64Char((b[2] % 16) * 4 + b[3] \div 64) \o
         Base64Char(b[3] % 64) \o
         Base64(SubSeq(b, 4, Len(b)))


(***************************************************************************)
(* The inputs of the facade.                                               *)
(***************************************************************************)
Bodies ==
    { Obj(<<>>),
      Obj(<< <<"source", Str("text")>> >>),
      Obj(<< <<"source", Str("text")>>, <<"token", Str("stale")>> >>) }

ParamSets == { Undefined, Obj(<<>>), Obj(<< <<"limit", Str("10")>> >>) }

Urls == { "//upload.example.org/a.png", "https://wiki.example.org/wiki/Page" }

RestOps == {"makeRestGetRequest", "makeRestPutRequest", "makeRestPostRequest"}
BestEffortOps == {"fetchPageHtml", "fetchImageAsBase64"}

\* The headers a facade function passes to withAuth.
Headers(o) == IF o = "makeRestGetRequest" THEN JsonAccept ELSE JsonAcceptContent

\* The settled or pending outcome of an async function.
Pending     == [kind |-> "pending"]
Returned(x) == [kind |-> "returned", value |-> x]
Threw(m)    == [kind |-> "threw", message |-> m]

(***************************************************************************)
(* State.                                                                  *)
(***************************************************************************)
VARIABLES
    registry,       \* the loaded Config.wikis
    current,        \* the key of the wiki wikiService.getCurrent() returns
    jar,            \* the session client's cookie store
    pc,             \* the await the call in flight is suspended at
    op,             \* the facade function called
    needAuth,       \* its arguments: needAuth, body, path or url, params
    body,
    target,
    params,
    privateWiki,    \* withAuth's locals privateWiki and token
    token,
    cookieQueries,  \* the URLs this call passed to getCookieStringSync, in order
    cookies,        \* withAuth's local cookies
    csrfFetches,    \* how often this call called getCsrfToken()
    csrf,           \* what getCsrfToken() resolved to in this call
    auth,           \* what withAuth resolved to
    apiBase,        \* what getRestApiBase() returned to this call
    sent,           \* the requests this call handed to fetch(), in order
    response,       \* the Response fetch() resolved to
    core,           \* the outcome of fetchCore
    result,         \* the outcome of the call
    last            \* how the previous call's credentials were resolved

vars ==
    << registry, current, jar, pc, op, needAuth, body, target, params,
       privateWiki, token, cookieQueries, cookies, csrfFetches, csrf, auth,
       apiBase, sent, response, core, result, last >>

args == << op, needAuth, body, target, params >>

\* The authentication mode a resolved header map stands for.
Mode(headers) ==
    IF "Authorization" \in DOMAIN headers THEN "bearer"
    ELSE IF "Cookie" \in DOMAIN headers THEN "cookie"
    ELSE "no-auth"

\* What is kept of a call whose withAuth has resolved.
Resolution ==
    [ needAuth |-> needAuth, private |-> privateWiki, token |-> token,
      found |-> cookies # Undefined, mode |-> Mode(auth.headers) ]

Init ==
    /\ registry \in Registries
    /\ current \in Wikis
    /\ jar \in Jars
    /\ pc = "idle"
    /\ op = "none"
    /\ needAuth = FALSE
    /\ body = Undefined
    /\ target = ""
    /\ params = Undefined
    /\ privateWiki = FALSE
    /\ token = Undefined
    /\ cookieQueries = <<>>
    /\ cookies = Undefined
    /\ csrfFetches = 0
    /\ csrf = Undefined
    /\ auth = Undefined
    /\ apiBase = Undefined
    /\ sent = <<>>
    /\ response = Undefined
    /\ core = Pending
    /\ result = Pending
    /\ last = Undefined

(***************************************************************************)
(* The facade functions, from the call to the first await.                 *)
(***************************************************************************)
\* A call starts when no other is in flight; its locals are fresh.
Begin(o, needAuth_, body_, target_, params_) ==
    /\ pc = "idle"
    /\ op' = o
    /\ needAuth' = needAuth_
    /\ body' = body_
    /\ target' = target_
    /\ params' = params_
    /\ cookieQueries' = <<>>
    /\ cookies' = Undefined
    /\ csrfFetches' = 0
    /\ csrf' = Undefined
    /\ apiBase' = Undefined
    /\ response' = Undefined
    /\ core' = Pending
    /\ result' = Pending
    /\ UNCHANGED << registry, current, jar, last >>

\* makeRestGetRequest, makeRestPutRequest, makeRestPostRequest: withAuth
\* runs to its first await, or resolves at once.
RestCall(o, needAuth_, body_, path, params_) ==
    /\ Begin(o, needAuth_, body_, path, params_)
    /\ LET cfg == registry[current]
           r   == withAuthEnter(Headers(o), body_, needAuth_, cfg)
       IN  /\ privateWiki' = cfg.private
           /\ token' = cfg.token
           /\ IF r.next = "return"
              THEN auth' = r.config /\ pc' = "withAuth"
              ELSE auth' = Undefined /\ pc' = "getMwn"
    /\ sent' = <<>>

makeRestGetRequest ==
    \E path \in Paths, params_ \in ParamSets, needAuth_ \in BOOLEAN :
        RestCall("makeRestGetRequest", needAuth_, Undefined, path, params_)

makeRestPutRequest ==
    \E path \in Paths, body_ \in Bodies, needAuth_ \in BOOLEAN :
        RestCall("makeRestPutRequest", needAuth_, body_, path, Undefined)

makeRestPostRequest ==
    \E path \in Paths, body_ \in Bodies \cup {Undefined}, needAuth_ \in BOOLEAN :
        RestCall("makeRestPostRequest", needAuth_, body_, path, Undefined)

\* makeApiRequest, fetchPageHtml, fetchImageAsBase64: fetchCore runs to its
\* await of fetch().
DirectCall(o, url, params_, headers) ==
    /\ Begin(o, FALSE, Undefined, url, params_)
    /\ privateWiki' = FALSE
    /\ token' = Undefined
    /\ auth' = Undefined
    /\ sent' = << fetchCoreRequest(url, [ params |-> params_, headers |-> headers,
                                          body |-> Undefined, method |-> Undefined ]) >>
    /\ pc' = "fetch"

makeApiRequest ==
    \E url \in Urls, params_ \in ParamSets :
        DirectCall("makeApiRequest", url, params_, JsonAccept)

fetchPageHtml ==
    \E url \in Urls : DirectCall("fetchPageHtml", url, Undefined, NoHeaders)

fetchImageAsBase64 ==
    \E url \in Urls : DirectCall("fetchImageAsBase64", url, Undefined, NoHeaders)


(***************************************************************************)
(* withAuth after its awaits.                                              *)
(***************************************************************************)
\* getCookiesFromJar resumes from `await getMwn()`: it reads the store and
\* the active wiki's config; withAuth goes on with what it returns.
getCookiesFromJarResumes ==
    /\ pc = "getMwn"
    /\ LET lk == getCookiesFromJar(jar, registry[current])
           r  == withAuthCookies(Headers(op), body, lk.cookies)
       IN  /\ cookieQueries' = lk.queries
           /\ cookies' = lk.cookies
           /\ IF r.next = "return"
              THEN /\ auth' = r.config
                   /\ csrfFetches' = csrfFetches
                   /\ pc' = "withAuth"
              ELSE /\ auth' = Undefined
                   /\ csrfFetches' = csrfFetches + 1
                   /\ pc' = "getCsrfToken"
    /\ UNCHANGED << registry, current, jar, args, privateWiki, token, csrf,
                    apiBase, sent, response, core, result, last >>

\* getCsrfToken() resolves: withAuth returns the cookie headers and the body
\* with the token.
getCsrfTokenResolves ==
    /\ pc = "getCsrfToken"
    /\ \E value \in CsrfTokens :
        /\ csrf' = Str(value)
        /\ auth' = [ headers |-> withAuthCookies(Headers(op), body, cookies).config.headers,
                     body    |-> WithCsrfToken(body, Str(value)) ]
    /\ pc' = "withAuth"
    /\ UNCHANGED << registry, current, jar, args, privateWiki, token,
                    cookieQueries, cookies, csrfFetches, apiBase, sent,
                    response, core, result, last >>

\* (a variant that goes on without a token when getCsrfToken() rejects)
getCsrfTokenRejects_Swallowed ==
    /\ pc = "getCsrfToken"
    /\ auth' = withAuthCookies(Headers(op), body, cookies).config
    /\ pc' = "withAuth"
    /\ UNCHANGED << registry, current, jar, args, privateWiki, token,
                    cookieQueries, cookies, csrfFetches, csrf, apiBase, sent,
                    response, core, result, last >>

\* getCsrfToken() rejects: withAuth rejects, and so does the facade function
\* awaiting it.
getCsrfTokenRejects ==
    /\ pc = "getCsrfToken"
    /\ result' = Threw(CsrfError)
    /\ pc' = "done"
    /\ UNCHANGED << registry, current, jar, args, privateWiki, token,
                    cookieQueries, cookies, csrfFetches, csrf, auth, apiBase,
                    sent, response, core, last >>

\* The options a REST function passes to fetchCore.
RestOptions ==
    CASE op = "makeRestGetRequest" ->
            [ params |-> params, headers |-> auth.headers,
              body |-> Undefined, method |-> Undefined ]
      [] op = "makeRestPutRequest" ->
            [ params |-> Undefined, headers |-> auth.headers,
              body |-> auth.body, method |-> Str("PUT") ]
      [] op = "makeRestPostRequest" ->
            [ params |-> Undefined, headers |-> auth.headers,
              body |-> auth.body, method |-> Str("POST") ]

\* The facade function resumes from `await withAuth(..)`: it reads the REST
\* base of the active wiki and fetchCore runs to its await of fetch().
withAuthResolves ==
    /\ pc = "withAuth"
    /\ LET base == getRestApiBase(registry[current])
       IN  /\ apiBase' = Str(base)
           /\ sent' = Append(sent, fetchCoreRequest(base \o target, RestOptions))
    /\ pc' = "fetch"
    /\ UNCHANGED << registry, current, jar, args, privateWiki, token,
                    cookieQueries, cookies, csrfFetches, csrf, auth, response,
                    core, result, last >>

(***************************************************************************)
(* fetchCore after fetch(), and the decoding of the response.              *)
(***************************************************************************)
\* What a facade function makes of a rejection of fetchCore or of the body
\* read: the two best-effort helpers catch it and return null.
\* (a variant of the helpers without their catch)
Rejection_Uncaught(o, message) == Threw(message)

Rejection(o, message) ==
    IF o \in BestEffortOps THEN Returned(Null) ELSE Threw(message)

\* fetch() rejects: fetchCore rejects with the transport's error.
fetchRejects ==
    /\ pc = "fetch"
    /\ core' = Threw(TransportError)
    /\ result' = Rejection(op, TransportError)
    /\ pc' = "done"
    /\ UNCHANGED << registry, current, jar, args, privateWiki, token,
                    cookieQueries, cookies, csrfFetches, csrf, auth, apiBase,
                    sent, response, last >>

\* fetch() resolves: fetchCore returns a response that is ok, and reads the
\* body of one that is not.
fetchResolves ==
    /\ pc = "fetch"
    /\ \E status \in Statuses, url \in {sent[Len(sent)].url, RedirectedUrl} :
        /\ response' = [status |-> status, url |-> url]
        /\ IF ResponseOk(status)
           THEN core' = Returned("response") /\ pc' = "body"
           ELSE core' = core /\ pc' = "errorBody"
    /\ UNCHANGED << registry, current, jar, args, privateWiki, token,
                    cookieQueries, cookies, csrfFetches, csrf, auth, apiBase,
                    sent, result, last >>

\* fetchCore throws the HTTP error with the text it has for the body.
ThrowHttpError(errorBody) ==
    LET message == HttpErrorMessage(response.status, response.url, errorBody)
    IN  /\ core' = Threw(message)
        /\ result' = Rejection(op, message)
        /\ pc' = "done"
        /\ UNCHANGED << registry, current, jar, args, privateWiki, token,
                        cookieQueries, cookies, csrfFetches, csrf, auth,
                        apiBase, sent, response, last >>

\* response.text() of a response that is not ok resolves.
errorBodyResolves ==
    /\ pc = "errorBody"
    /\ \E errorBody \in ErrorTexts : ThrowHttpError(errorBody)

\* response.text() of a response that is not ok rejects: the catch gives
\* the placeholder.
errorBodyRejects ==
    /\ pc = "errorBody"
    /\ ThrowHttpError(ErrorBodyPlaceholder)

\* What a facade function returns once the body of an ok response is read.
Decoded(o, bytes) ==
    CASE o = "fetchPageHtml"      -> Str(HtmlText)
      [] o = "fetchImageAsBase64" -> Str(Base64(bytes))
      [] OTHER                    -> JsonPayload

\* response.json(), response.text() or response.arrayBuffer() resolves.
bodyResolves ==
    /\ pc = "body"
    /\ \E bytes \in ImageBytes : result' = Returned(Decoded(op, bytes))
    /\ pc' = "done"
    /\ UNCHANGED << registry, current, jar, args, privateWiki, token,
                    cookieQueries, cookies, csrfFetches, csrf, auth, apiBase,
                    sent, response, core, last >>

\* response.json(), response.text() or response.arrayBuffer() rejects.
bodyRejects ==
    /\ pc = "body"
    /\ result' = Rejection(op, JsonError)
    /\ pc' = "done"
    /\ UNCHANGED << registry, current, jar, args, privateWiki, token,
                    cookieQueries, cookies, csrfFetches, csrf, auth, apiBase,
                    sent, response, core, last >>

\* The caller has the outcome of the call: the call and its locals are gone.
Return(last_) ==
    /\ pc = "done"
    /\ pc' = "idle"
    /\ op' = "none"
    /\ needAuth' = FALSE
    /\ body' = Undefined
    /\ target' = ""
    /\ params' = Undefined
    /\ privateWiki' = FALSE
    /\ token' = Undefined
    /\ cookieQueries' = <<>>
    /\ cookies' = Undefined
    /\ csrfFetches' = 0
    /\ csrf' = Undefined
    /\ auth' = Undefined
    /\ apiBase' = Undefined
    /\ sent' = <<>>
    /\ response' = Undefined
    /\ core' = Pending
    /\ result' = Pending
    /\ last' = last_
    /\ UNCHANGED << registry, current, jar >>

callReturns == Return(last)

\* The same step, keeping how the call's credentials were resolved.
callReturnsRecorded == Return(IF auth # Undefined THEN Resolution ELSE last)

(***************************************************************************)
(* The other tasks of the process.                                         *)
(***************************************************************************)
\* Another task selects another wiki: wikiService.setCurrent( key ).
setCurrent ==
    /\ \E key \in Wikis \ {current} : current' = key
    /\ UNCHANGED << registry, jar, pc, args, privateWiki, token, cookieQueries,
                    cookies, csrfFetches, csrf, auth, apiBase, sent, response,
                    core, result, last >>

\* The same between two calls only.
setCurrentWhenIdle == pc = "idle" /\ setCurrent

Next ==
    \/ makeApiRequest
    \/ makeRestGetRequest
    \/ makeRestPutRequest
    \/ makeRestPostRequest
    \/ fetchPageHtml
    \/ fetchImageAsBase64
    \/ getCookiesFromJarResumes
    \/ getCsrfTokenResolves
    \/ getCsrfTokenRejects
    \/ withAuthResolves
    \/ fetchRejects
    \/ fetchResolves
    \/ errorBodyResolves
    \/ errorBodyRejects
    \/ bodyResolves
    \/ bodyRejects
    \/ callReturns
    \/ setCurrent

Spec == Init /\ [][Next]_vars

\* The REST calls alone, one after the other, over a transport that is down
\* and with the active wiki changing between calls only; the history
\* variable last is kept, so that two calls' resolutions can be compared.
NextResolve ==
    \/ makeRestGetRequest
    \/ makeRestPutRequest
    \/ makeRestPostRequest
    \/ getCookiesFromJarResumes
    \/ getCsrfTokenResolves
    \/ getCsrfTokenRejects
    \/ withAuthResolves
    \/ fetchRejects
    \/ callReturnsRecorded
    \/ setCurrentWhenIdle

SpecResolve == Init /\ [][NextResolve]_vars


(***************************************************************************)
(* Properties.                                                             *)
(***************************************************************************)
\* withAuth has resolved for the REST call in flight.
Resolved == op \in RestOps /\ auth # Undefined

\* The request the call handed to the transport.
Request == sent[1]

\* C1, as stated: whenever the active wiki's token is non-null, whatever
\* needAuth and private are, withAuth resolves to headers that contain
\* Authorization: Bearer <token> and to the body it was given.
C1_BearerWhateverFlags ==
    (Resolved /\ HasToken(token)) =>
        /\ "Authorization" \in DOMAIN auth.headers
        /\ auth.headers["Authorization"] = "Bearer " \o token.v
        /\ auth.body = body

\* C1, amended: with a non-null token, withAuth resolves to the input headers
\* plus Authorization: Bearer <token> and to the body it was given whenever
\* needAuth is true or the wiki is private; when both are false it resolves
\* to the input headers as given, without an Authorization header.
C1_BearerWhenAuthRequired ==
    (Resolved /\ HasToken(token)) =>
        /\ auth.body = body
        /\ IF needAuth \/ privateWiki
           THEN /\ "Authorization" \in DOMAIN auth.headers
                /\ auth.headers["Authorization"] = "Bearer " \o token.v
                /\ \A k \in DOMAIN Headers(op) : auth.headers[k] = Headers(op)[k]
           ELSE auth.headers = Headers(op)

\* C1's case: a read of a private wiki that has a token, with needAuth false,
\* has been resolved with the bearer header.
C1_Witness ==
    /\ Resolved /\ HasToken(token) /\ privateWiki /\ ~needAuth
    /\ op = "makeRestPostRequest" /\ body # Undefined
    /\ "Authorization" \in DOMAIN auth.headers

\* C3: a REST call with needAuth false on a wiki that is not private resolves
\* at once to the headers and body it was given (no Authorization, no Cookie,
\* no token field), with no cookie lookup and no CSRF fetch, whatever token
\* and cookies the wiki has.
C3_AnonymousUnchanged ==
    (op \in RestOps /\ ~needAuth /\ ~privateWiki) =>
        /\ auth = [headers |-> Headers(op), body |-> body]
        /\ "Authorization" \notin DOMAIN auth.headers
        /\ "Cookie" \notin DOMAIN auth.headers
        /\ pc \notin {"getMwn", "getCsrfToken"}
        /\ cookieQueries = <<>>
        /\ cookies = Undefined
        /\ csrfFetches = 0
        /\ csrf = Undefined
        /\ Len(sent) = 1 =>
              /\ "Authorization" \notin DOMAIN Request.headers
              /\ "Cookie" \notin DOMAIN Request.headers
              /\ Request.json = body

\* C3's case: an anonymous write to a wiki that has a token and cookies in
\* the store has reached the transport.
C3_Witness ==
    /\ op = "makeRestPutRequest" /\ ~needAuth /\ ~privateWiki
    /\ HasToken(token)
    /\ jar.present /\ jar.urls # {}
    /\ Len(sent) = 1


\* The call in flight is a PUT or POST that resolved to cookie auth: a
\* cookie string was found (which happens only with authentication required
\* and the token absent) and the request has reached the transport.
CookieWriteSent ==
    /\ op \in {"makeRestPutRequest", "makeRestPostRequest"}
    /\ cookies # Undefined
    /\ Len(sent) = 1

\* C4: the body sent by a PUT or POST under cookie auth has the fields of
\* the caller's body and a token field whose value is what the one CSRF
\* fetch of this very call resolved to; a call without a body sends no body
\* and makes no CSRF fetch.
C4_FreshCsrfTokenInBody ==
    /\ CookieWriteSent =>
          /\ (needAuth \/ privateWiki) /\ ~HasToken(token)
          /\ "Cookie" \in DOMAIN Request.headers
          /\ IF body # Undefined
             THEN /\ csrfFetches = 1
                  /\ csrf \in { Str(value) : value \in CsrfTokens }
                  /\ Keys(Request.json) = Keys(body) \cup {"token"}
                  /\ \A k \in Keys(body) \ {"token"} :
                        Field(Request.json, k) = Field(body, k)
                  /\ Field(Request.json, "token") = csrf
                  /\ Request.body = Str(JsonStringify(Request.json))
             ELSE /\ csrfFetches = 0
                  /\ csrf = Undefined
                  /\ Request.json = Undefined
                  /\ Request.body = Undefined
    /\ (op \in RestOps /\ body = Undefined) => csrfFetches = 0

\* C4's case: a cookie-authenticated PUT whose body came with a token field
\* of its own has been sent after one CSRF fetch.
C4_Witness ==
    /\ CookieWriteSent
    /\ op = "makeRestPutRequest"
    /\ "token" \in Keys(body) /\ "source" \in Keys(body)
    /\ csrfFetches = 1
    /\ Field(Request.json, "token") # Field(body, "token")

\* The CSRF fetch of the call in flight was made and has rejected.
CsrfFetchFailed == csrfFetches = 1 /\ csrf = Undefined /\ pc # "getCsrfToken"

\* C5: when the CSRF fetch rejects, the call is over, its outcome is that
\* error, and nothing was handed to the transport.
C5_CsrfFailureBlocksRequest ==
    CsrfFetchFailed =>
        /\ pc = "done"
        /\ result = Threw(CsrfError)
        /\ sent = <<>>
        /\ response = Undefined

\* C5's case: a POST with a body, under cookie auth, whose CSRF fetch
\* rejected.
C5_Witness ==
    /\ CsrfFetchFailed
    /\ op = "makeRestPostRequest"
    /\ cookies # Undefined /\ body # Undefined
    /\ result = Threw(CsrfError)

\* The call in flight required authentication, found no token, and its
\* cookie lookup has ended without a cookie string.
NoSessionMaterial ==
    /\ op \in RestOps
    /\ needAuth \/ privateWiki
    /\ ~HasToken(token)
    /\ pc \notin {"idle", "getMwn"}
    /\ cookies = Undefined

\* C7: with authentication required, no token and no cookie string, withAuth
\* resolves to the headers and body it was given, no CSRF fetch is made, and
\* the request goes to the transport without a Cookie or an Authorization
\* header: the call fails, if it does, only on what the transport answers.
C7_NoCookiesProceedsUnauthenticated ==
    NoSessionMaterial =>
        /\ auth = [headers |-> Headers(op), body |-> body]
        /\ csrfFetches = 0
        /\ pc \in {"withAuth", "fetch", "errorBody", "body", "done"}
        /\ pc # "withAuth" =>
              /\ Len(sent) = 1
              /\ "Cookie" \notin DOMAIN Request.headers
              /\ "Authorization" \notin DOMAIN Request.headers
              /\ Request.json = body
        /\ result.kind = "threw" => core.kind = "threw" \/ response # Undefined

\* C7's case: a write that needs authentication, on a wiki whose store was
\* asked for both URLs and had no cookies, has been sent.
C7_Witness ==
    /\ NoSessionMaterial
    /\ needAuth /\ body # Undefined
    /\ jar.present /\ Len(cookieQueries) = 2
    /\ Len(sent) = 1


\* Whether the text part occurs in the text whole.
Contains(whole, part) ==
    \E i \in 1..(Len(whole) + 1 - Len(part)) :
        SubSeq(whole, i, i + Len(part) - 1) = part

\* The transport has answered the call in flight with a non-2xx status.
NonSuccessResponse ==
    response # Undefined /\ (response.status < 200 \/ response.status > 299)

\* C8: after a non-2xx response the transport has been invoked exactly once,
\* no ok body is decoded, and once the error body's read has settled
\* fetchCore has thrown one error whose message carries the status code, the
\* response's URL and the body text, or the placeholder when the read
\* failed; that error is the outcome of the call, except in the two
\* best-effort helpers, which return null.
C8_NonSuccessRaisesStatusError ==
    NonSuccessResponse =>
        /\ Len(sent) = 1
        /\ pc \in {"errorBody", "done"}
        /\ pc = "errorBody" => core = Pending /\ result = Pending
        /\ pc = "done" =>
              /\ core.kind = "threw"
              /\ Contains(core.message, ToString(response.status))
              /\ Contains(core.message, response.url)
              /\ \E errorBody \in ErrorTexts \cup {ErrorBodyPlaceholder} :
                    Contains(core.message, errorBody)
              /\ IF op \in BestEffortOps
                 THEN result = Returned(Null)
                 ELSE result = core

\* C8's case: a PUT answered 404 after a redirect, whose error body could
\* not be read, has failed with the placeholder in the message.
C8_Witness ==
    /\ NonSuccessResponse
    /\ pc = "done"
    /\ op = "makeRestPutRequest"
    /\ response.status = 404
    /\ response.url = RedirectedUrl
    /\ result.kind = "threw"
    /\ Contains(result.message, "404")
    /\ Contains(result.message, ErrorBodyPlaceholder)

\* C9: fetchPageHtml and fetchImageAsBase64 never reject; they return null
\* when fetchCore rejected (the transport threw, or the response was not
\* ok), null or the payload once an ok response's body read has settled, and
\* a payload only for an ok response: the page's text, or the base64 text of
\* the image's bytes.
C9_BestEffortNeverThrows ==
    op \in BestEffortOps =>
        /\ result.kind # "threw"
        /\ pc = "done" =>
              /\ result.kind = "returned"
              /\ core.kind = "threw" => result.value = Null
              /\ result.value # Null =>
                    /\ core = Returned("response")
                    /\ response.status >= 200 /\ response.status <= 299
                    /\ IF op = "fetchPageHtml"
                       THEN result.value = Str(HtmlText)
                       ELSE result.value \in {Str("TQ=="), Str("TWFu")}
        /\ pc # "done" => result = Pending

\* C9's case: fetchImageAsBase64 of a protocol-relative URL ended in null
\* because the transport threw.
C9_Witness ==
    /\ op = "fetchImageAsBase64"
    /\ pc = "done"
    /\ core = Threw(TransportError)
    /\ result = Returned(Null)
    /\ Request.url = "https://upload.example.org/a.png"


\* The REST API URL of a wiki as C6 words it: server + restpath when a
\* (non-empty) restpath is set, otherwise server + scriptpath + "/rest.php".
RestApiUrlOf(cfg) ==
    IF cfg.restpath \notin {Undefined, Null, Str("")}
    THEN cfg.server \o cfg.restpath.v
    ELSE cfg.server \o cfg.scriptpath \o "/rest.php"

\* C6: the step in which getCookiesFromJar runs asks no store when there is
\* none and returns absent; otherwise it asks the store first for the REST
\* API URL of the active wiki, which is the value getRestApiBase returns,
\* and returns what it gets if that is not empty; only if it is empty does
\* it ask for the server origin, and it returns that answer, or absent
\* when it is empty too.
C6_CookieLookupOrder ==
    [][ (pc = "getMwn" /\ pc' # "getMwn") =>
          LET cfg      == registry[current]
              restUrl  == RestApiUrlOf(cfg)
              atRest   == getCookieStringSync(jar, restUrl)
              atServer == getCookieStringSync(jar, cfg.server)
          IN  /\ restUrl = getRestApiBase(cfg)
              /\ IF ~jar.present
                 THEN cookieQueries' = <<>> /\ cookies' = Undefined
                 ELSE IF atRest # ""
                 THEN cookieQueries' = <<restUrl>> /\ cookies' = Str(atRest)
                 ELSE /\ cookieQueries' = <<restUrl, cfg.server>>
                      /\ cookies' = IF atServer # "" THEN Str(atServer)
                                                     ELSE Undefined
      ]_vars

\* C6's case: on a wiki with a restpath, the store had nothing for the REST
\* API URL and the lookup returned the cookies of the server origin.
C6_Witness ==
    /\ op \in RestOps
    /\ cookieQueries = << "https://wiki.example.org/api", "https://wiki.example.org" >>
    /\ cookies = Str(CookieFor("https://wiki.example.org"))
    /\ "https://wiki.example.org/w/rest.php" \in jar.urls

\* C10: in every request a REST call hands to the transport, the bearer
\* token, or the cookie string, comes from the config of the wiki whose REST
\* API base the request is sent to.
C10_CredentialMatchesDestination ==
    (op \in RestOps /\ Len(sent) = 1) =>
        \E w \in Wikis :
            /\ apiBase = Str(getRestApiBase(registry[w]))
            /\ "Authorization" \in DOMAIN Request.headers =>
                  /\ HasToken(registry[w].token)
                  /\ Request.headers["Authorization"] =
                        "Bearer " \o registry[w].token.v
            /\ "Cookie" \in DOMAIN Request.headers =>
                  Request.headers["Cookie"] \in
                      { CookieFor(RestApiUrlOf(registry[w])),
                        CookieFor(registry[w].server) }

\* C2, as stated: two calls with the same needAuth, private and token are
\* resolved to the same one of the three modes, whatever their bodies and
\* paths and whatever the cookie store holds.
C2_ModeFromFlagsAndToken ==
    /\ Resolved =>
          ~("Authorization" \in DOMAIN auth.headers /\ "Cookie" \in DOMAIN auth.headers)
    /\ (Resolved /\ last # Undefined
            /\ last.needAuth = needAuth
            /\ last.private = privateWiki
            /\ last.token = token) =>
          last.mode = Mode(auth.headers)

\* C2, amended: every call is resolved to exactly one of the three modes,
\* and two calls with the same needAuth, private and token whose cookie
\* lookups agree on whether a cookie string was found are resolved to the
\* same mode, whatever their bodies and paths are; with authentication
\* required and no token, that mode is cookie/CSRF when a cookie string was
\* found and no-auth when none was.
C2_ModeFromFlagsTokenAndCookies ==
    /\ Resolved =>
          /\ ~("Authorization" \in DOMAIN auth.headers /\ "Cookie" \in DOMAIN auth.headers)
          /\ ((needAuth \/ privateWiki) /\ ~HasToken(token)) =>
                Mode(auth.headers) = IF cookies # Undefined THEN "cookie" ELSE "no-auth"
    /\ (Resolved /\ last # Undefined
            /\ last.needAuth = needAuth
            /\ last.private = privateWiki
            /\ last.token = token
            /\ last.found = (cookies # Undefined)) =>
          last.mode = Mode(auth.headers)

\* C2's case: after a call resolved to cookie mode, a bodiless read with the
\* same needAuth, private and token, for which a cookie string was found
\* too, is resolved to cookie mode.
C2_Witness ==
    /\ Resolved /\ last # Undefined
    /\ op = "makeRestGetRequest"
    /\ last.needAuth = needAuth /\ last.private = privateWiki /\ last.token = token
    /\ last.found /\ cookies # Undefined
    /\ last.mode = "cookie"
    /\ Mode(auth.headers) = "cookie"

=============================================================================
